---- MODULE Spec2Model ----
(***************************************************************************)
(* Content-freshness and location-validation pipeline of the travel guide  *)
(* generator (src/optimizetreavel.py).                                      *)
(*                                                                         *)
(* Representation of strings.  A Python string is a sequence of tokens:    *)
(* words, punctuation marks and the whitespace token " ".  Words are       *)
(* separated by one implicit blank, so f"{a} beach, India" is              *)
(* a \o <<"beach", ",", "India">>.  `x in s` is containment of a           *)
(* contiguous token sequence, str.lower() lowers every token.  The         *)
(* vocabularies below hold no word that is a proper part of another word,  *)
(* so containment of tokens and containment of characters agree on them.   *)
(*                                                                         *)
(* Time is counted in units of 1/UnitsPerDay day; timedelta.days is the    *)
(* whole number of days of a difference.                                   *)
(***************************************************************************)
EXTENDS Integers, Sequences, FiniteSets, TLC

VARIABLES
    now,        \* wall clock, datetime.now(), in time units
    stale,      \* harness of needs_field_update: the last call and its result
    fv,         \* frame of fetch_and_validate_location
    store,      \* the OUTPUT collection: the Record of the topic's slug, or NoRecord
    pass,       \* frame of smart_content_generation
    gl,         \* frame of fetch_location, one geocoding request per step
    rc,         \* two smart_content_generation passes on one slug, and the writes made
    sr          \* frame of safe_run, one invocation of the capability per step

vars == <<now, stale, fv, store, pass, gl, rc, sr>>

----------------------------------------------------------------------------
(* Bounds of the model *)

MaxTextLen == 2
UnitsPerDay == 2
MaxExtraAge == 1
MaxGeoHit == 2
MaxRetriesBound == 3

(* Program constants *)

DaysThreshold == 60
SafeRunRetries == 2
DefaultMaxRetries == 3

----------------------------------------------------------------------------
(* Strings *)

Lower(tok) ==
    CASE tok = "Colva" -> "colva"
      [] tok = "Baga" -> "baga"
      [] tok = "Beach" -> "beach"
      [] tok = "Goa" -> "goa"
      [] tok = "India" -> "india"
      [] tok = "Momos" -> "momos"
      [] tok = "Mumbai" -> "mumbai"
      [] tok = "France" -> "france"
      [] tok = "Restaurant" -> "restaurant"
      [] tok = "Festival" -> "festival"
      [] tok = "Popular" -> "popular"
      [] tok = "This" -> "this"
      [] tok = "Discover" -> "discover"
      [] tok = "Explore" -> "explore"
      [] tok = "Welcome" -> "welcome"
      [] tok = "Always" -> "always"
      [] tok = "Check" -> "check"
      [] tok = "Plan" -> "plan"
      [] tok = "Rules" -> "rules"
      [] OTHER -> tok

LowerStr(s) == [i \in 1..Len(s) |-> Lower(s[i])]

\* pat in s
Contains(s, pat) ==
    \E i \in 0..(Len(s) - Len(pat)) :
        \A j \in 1..Len(pat) : s[i + j] = pat[j]

IsSpace(tok) == tok = " "

\* not s.strip(): empty, or whitespace only
IsBlank(s) == \A i \in 1..Len(s) : IsSpace(s[i])

\* s.split(): the words of s
RECURSIVE Split(_)
Split(s) ==
    IF s = <<>> THEN <<>>
    ELSE IF IsSpace(Head(s)) THEN Split(Tail(s))
    ELSE <<Head(s)>> \o Split(Tail(s))

----------------------------------------------------------------------------
(* Staleness detection *)

\* A created_at value: absent/falsy, a string (unparsable, or ISO with or
\* without a UTC offset), or a datetime (naive or timezone-aware).
CreatedAtFalsy == [form |-> "falsy", aware |-> FALSE, t |-> 0]
CreatedAtBadStr == [form |-> "badstr", aware |-> FALSE, t |-> 0]
CreatedAtStr(t, aware) == [form |-> "str", aware |-> aware, t |-> t]
CreatedAtDatetime(t, aware) == [form |-> "datetime", aware |-> aware, t |-> t]

\* (a - b).days
TimedeltaDays(a, b) == (a - b) \div UnitsPerDay

\* datetime.fromisoformat(created_at.replace('Z', '+00:00')): a trailing Z or a
\* numeric offset gives an aware datetime, no offset a naive one.
FromIsoFormat(c) ==
    IF c.form = "badstr" THEN [ok |-> FALSE, dt |-> c]
    ELSE [ok |-> TRUE, dt |-> CreatedAtDatetime(c.t, c.aware)]

Returned(v) == [raised |-> FALSE, value |-> v]
Raised == [raised |-> TRUE, value |-> FALSE]

\* datetime.now() - created_at raises TypeError when created_at is aware:
\* now() is naive.
OutdatedArith(dt, days_threshold, clock) ==
    IF dt.aware THEN Raised
    ELSE Returned(TimedeltaDays(clock, dt.t) > days_threshold)

is_content_outdated(created_at, days_threshold, clock) ==
    IF created_at.form = "falsy" THEN Returned(TRUE)
    ELSE IF created_at.form \in {"str", "badstr"}
         THEN LET p == FromIsoFormat(created_at)
              IN IF ~p.ok THEN Returned(TRUE)
                 ELSE OutdatedArith(p.dt, days_threshold, clock)
         ELSE OutdatedArith(created_at, days_threshold, clock)

wrong_locations ==
    { <<"mumbai">>, <<"delhi">>, <<"bangalore">>, <<"kolkata">>, <<"chennai">>,
      <<"hyderabad">>, <<"maharashtra">>, <<"karnataka">>, <<"tamil", "nadu">>,
      <<"kerala">>, <<"andhra", "pradesh">>, <<"punjab">>, <<"rajasthan">>,
      <<"uttar", "pradesh">>, <<"bihar">>, <<"west", "bengal">> }

region_keywords ==
    { <<"goa">>, <<"beach">>, <<"miramar">>, <<"baga">>, <<"calangute">>, <<"anjuna">> }

generic_phrases ==
    { <<"this", "is", "a", "nice", "place">>, <<"popular", "destination">>,
      <<"famous", "location">>, <<"well", "known">>, <<"great", "spot">>,
      <<"beautiful", "place">>, <<"good", "area">>, <<"this", "location", "is">>,
      <<"visit", "this", "place">>, <<"famous", "spot">>,
      <<"this", "is", "a", "place">>, <<"this", "destination">>,
      <<"well-known", "destination">> }

outdated_years == { <<"2023">>, <<"2022">>, <<"2021">>, <<"2020">> }

contains_wrong_location(content, user_topic) ==
    IF content = <<>> \/ user_topic = <<>> THEN FALSE
    ELSE /\ \E k \in region_keywords : Contains(LowerStr(user_topic), k)
         /\ \E l \in wrong_locations : Contains(LowerStr(content), l)

contains_generic_phrases(content) ==
    IF content = <<>> THEN TRUE
    ELSE \E ph \in generic_phrases : Contains(LowerStr(content), ph)

missing_topic_name(content, user_topic) ==
    IF content = <<>> \/ user_topic = <<>> THEN TRUE
    ELSE ~Contains(LowerStr(content), LowerStr(user_topic))

contains_outdated_years(content) ==
    IF content = <<>> THEN FALSE
    ELSE \E y \in outdated_years : Contains(LowerStr(content), y)

\* The rules after the age rule, in the order of the source.
TextRules(field_content, user_topic, is_content_field) ==
    \/ contains_wrong_location(field_content, user_topic)
    \/ contains_generic_phrases(field_content)
    \/ missing_topic_name(field_content, user_topic)
    \/ (is_content_field /\ contains_outdated_years(field_content))

needs_field_update(field_content, user_topic, created_at, is_content_field, clock) ==
    IF IsBlank(field_content) THEN Returned(TRUE)
    ELSE LET o == is_content_outdated(created_at, DaysThreshold, clock)
         IN IF o.raised THEN Raised
            ELSE IF o.value THEN Returned(TRUE)
            ELSE Returned(TextRules(field_content, user_topic, is_content_field))

----------------------------------------------------------------------------
(* Generation capability and safe_run *)

\* One invocation of agent.run: it raises, gives nothing usable (a falsy result
\* or blank content), gives plain text, or gives a JSON object.
AgentRaise == [kind |-> "raise"]
AgentEmpty == [kind |-> "empty"]
AgentText(s) == [kind |-> "text", text |-> s]
AgentDict(d) == [kind |-> "dict", d |-> d]

\* The values safe_run returns: a str (the stripped content, or "") or a dict.
IsDict(r) == r.kind = "dict"
IsStr(r) == r.kind = "text"
EmptyStr == AgentText(<<>>)

\* dict, blank str or other str
ResultKind(r) ==
    IF IsDict(r) THEN "dict" ELSE IF IsBlank(r.text) THEN "empty" ELSE "text"

\* dict.get(key, default) on a JSON object whose keys hold "true", "false" or
\* are absent
GetBool(field, default) ==
    IF field = "absent" THEN default ELSE field = "true"

SmartLocationFallback == AgentDict([should_fetch |-> "false", search_query |-> <<>>])

RECURSIVE SafeRunFrom(_, _, _)
SafeRunFrom(agent_name, outs, attempt) ==
    IF attempt > SafeRunRetries
    THEN IF agent_name = "smart_location_agent" THEN SmartLocationFallback ELSE EmptyStr
    ELSE LET result == outs[attempt]
         IN IF result.kind \in {"raise", "empty"}
            THEN SafeRunFrom(agent_name, outs, attempt + 1)
            ELSE result

safe_run(agent_name, outs) == SafeRunFrom(agent_name, outs, 1)

\* What the capability may do over the attempts of one safe_run
Outcomes(payloads) == [1..SafeRunRetries -> {AgentRaise, AgentEmpty} \cup payloads]

Tri == {"true", "false", "absent"}

ValidatorPayloads ==
    { AgentDict([is_valid |-> v, should_retry |-> r]) : v \in Tri, r \in Tri }
    \cup { AgentText(<<"unsure">>) }

----------------------------------------------------------------------------
(* Geocoding: fetch_location *)

\* Python None where a str is expected
NoneStr == <<"#None">>

Truthy(s) == s # <<>> /\ s # NoneStr

Candidate(address, lat, lon) ==
    [address |-> address, latitude |-> lat, longitude |-> lon, error |-> NoneStr]

UnsetLocation == Candidate(NoneStr, 0, 0)

\* {"error": "Location not found", "address": address}; .get("latitude", 0.0)
\* of it is 0.0
ErrorCandidate(address) ==
    [address |-> address, latitude |-> 0, longitude |-> 0,
     error |-> <<"Location", "not", "found">>]

\* best_indian_result = None
NoBest == [address |-> NoneStr, latitude |-> 0, longitude |-> 0, error |-> <<"#unbound">>]

state_suffixes ==
    << <<",", "Goa", ",", "India">>, <<",", "Maharashtra", ",", "India">>,
       <<",", "Karnataka", ",", "India">>, <<",", "Kerala", ",", "India">>,
       <<",", "Tamil", "Nadu", ",", "India">>, <<",", "Andhra", "Pradesh", ",", "India">>,
       <<",", "Odisha", ",", "India">>, <<",", "West", "Bengal", ",", "India">>,
       <<",", "Gujarat", ",", "India">>,
       <<",", "Andaman", "and", "Nicobar", "Islands", ",", "India">> >>

HasBeach(address) == Contains(LowerStr(address), <<"beach">>)

search_strategies(address) ==
    << address \o <<",", "India">> >>
    \o [i \in 1..Len(state_suffixes) |-> address \o state_suffixes[i]]
    \o << IF ~HasBeach(address) THEN address \o <<"beach", ",", "India">> ELSE address >>
    \o (IF ~HasBeach(address)
        THEN [i \in 1..Len(state_suffixes) |-> address \o <<"beach">> \o state_suffixes[i]]
        ELSE <<>>)
    \o << address >>
    \o << IF ~HasBeach(address) THEN address \o <<"beach">> ELSE address >>

\* list(dict.fromkeys(xs)): the first occurrence of each element, in order
RECURSIVE UniqueFrom(_, _, _)
UniqueFrom(xs, i, acc) ==
    IF i > Len(xs) THEN acc
    ELSE IF \E j \in 1..Len(acc) : acc[j] = xs[i]
         THEN UniqueFrom(xs, i + 1, acc)
         ELSE UniqueFrom(xs, i + 1, Append(acc, xs[i]))

unique_strategies(address) == UniqueFrom(search_strategies(address), 1, <<>>)

\* One geocoding request: it raises (transport or status error), or gives a
\* list of results.
GeoRaise == [raises |-> TRUE, data |-> <<>>]
GeoData(results) == [raises |-> FALSE, data |-> results]

IsIndian(loc) ==
    \/ Contains(LowerStr(loc.display_name), <<"india">>)
    \/ loc.country_code = "in"

ResultCandidate(loc) == Candidate(loc.display_name, loc.lat, loc.lon)

RECURSIVE StrategyLoop(_, _, _, _, _)
StrategyLoop(address, strategies, geo, i, best_indian_result) ==
    IF i > Len(strategies)
    THEN IF best_indian_result # NoBest THEN best_indian_result
         ELSE ErrorCandidate(address)
    ELSE IF geo[i].raises \/ geo[i].data = <<>>
         THEN StrategyLoop(address, strategies, geo, i + 1, best_indian_result)
         ELSE LET indian_results == SelectSeq(geo[i].data, IsIndian)
              IN IF indian_results # <<>> THEN ResultCandidate(indian_results[1])
                 ELSE IF best_indian_result = NoBest
                      THEN StrategyLoop(address, strategies, geo, i + 1,
                                        ResultCandidate(geo[i].data[1]))
                      ELSE StrategyLoop(address, strategies, geo, i + 1,
                                        best_indian_result)

\* fetch_location on the strategies already built for the address
FetchWith(address, strategies, geo) ==
    IF ~Truthy(address) THEN UnsetLocation
    ELSE StrategyLoop(address, strategies, geo, 1, NoBest)

fetch_location(address, geo) == FetchWith(address, unique_strategies(address), geo)

\* Sample results of the geocoder
GoaHit ==
    [display_name |-> <<"Colva", ",", "Goa", ",", "India">>, country_code |-> "in",
     lat |-> 15, lon |-> 73]
CodeOnlyHit ==
    [display_name |-> <<"Colva">>, country_code |-> "in", lat |-> 16, lon |-> 74]
ForeignHit ==
    [display_name |-> <<"Colva", ",", "France">>, country_code |-> "fr",
     lat |-> 48, lon |-> 2]

GeoResponses ==
    { GeoRaise, GeoData(<<>>), GeoData(<<GoaHit>>), GeoData(<<CodeOnlyHit>>),
      GeoData(<<ForeignHit>>), GeoData(<<ForeignHit, GoaHit>>) }

\* The geocoder's answers to the requests of one fetch_location call: any
\* answers to the first MaxGeoHit requests, nothing found by the later ones.
GeoScenarios(n) ==
    { [i \in 1..n |-> IF i <= MaxGeoHit THEN h[i] ELSE GeoData(<<>>)] :
      h \in [1..MaxGeoHit -> GeoResponses] }

\* Every candidate fetch_location may return for a query
FetchLocationResults(address) ==
    LET strategies == unique_strategies(address)
    IN { FetchWith(address, strategies, geo) : geo \in GeoScenarios(Len(strategies)) }

\* fetch_location step by step: one geocoding request per step.  asked and
\* answers list the queries sent and the responses got, events lists the
\* requests and the pauses of the call in order.
GeoIdle ==
    [pc |-> "idle", address |-> <<>>, strategies |-> <<>>, i |-> 1,
     best_indian_result |-> NoBest, ret |-> NoBest, asked |-> <<>>, answers |-> <<>>,
     events |-> <<>>]

GeoCall(address) == [GeoIdle EXCEPT !.pc = "enter", !.address = address]

\* if not address: return the unset location; else build the strategies
GeoEnter ==
    /\ gl.pc = "enter"
    /\ gl' = IF ~Truthy(gl.address)
              THEN [gl EXCEPT !.pc = "returned", !.ret = UnsetLocation]
              ELSE [gl EXCEPT !.pc = "loop",
                               !.strategies = unique_strategies(gl.address)]
    /\ UNCHANGED <<now, stale, fv, store, pass, rc, sr>>

\* The end of the for loop, or its next iteration
GeoAdvance(g) ==
    IF g.i < Len(g.strategies) THEN [g EXCEPT !.i = g.i + 1]
    ELSE [g EXCEPT !.pc = "returned",
                   !.ret = IF g.best_indian_result # NoBest THEN g.best_indian_result
                           ELSE ErrorCandidate(g.address)]

\* StrategyStep taking the first result of a response whatever its country
StrategyStepAnyCountry(g, response) ==
    LET h == [g EXCEPT !.asked = Append(@, g.strategies[g.i]),
                       !.answers = Append(@, response),
                       !.events = Append(@, "request")]
    IN IF response.raises \/ response.data = <<>> THEN GeoAdvance(h)
       ELSE [h EXCEPT !.pc = "returned", !.ret = ResultCandidate(response.data[1])]

\* One iteration of `for search_query in unique_strategies`: the request is
\* sent with no pause before it, and its response handled
StrategyStep(g, response) ==
    LET h == [g EXCEPT !.asked = Append(@, g.strategies[g.i]),
                       !.answers = Append(@, response),
                       !.events = Append(@, "request")]
    IN IF response.raises \/ response.data = <<>> THEN GeoAdvance(h)
       ELSE LET indian_results == SelectSeq(response.data, IsIndian)
            IN IF indian_results # <<>>
               THEN [h EXCEPT !.pc = "returned", !.ret = ResultCandidate(indian_results[1])]
               ELSE IF g.best_indian_result = NoBest
                    THEN GeoAdvance([h EXCEPT !.best_indian_result =
                                        ResultCandidate(response.data[1])])
                    ELSE GeoAdvance(h)

\* The geocoder answers anything to the first MaxGeoHit requests and finds
\* nothing for the later ones
GeoRequest ==
    /\ gl.pc = "loop"
    /\ \E response \in (IF gl.i <= MaxGeoHit THEN GeoResponses ELSE {GeoData(<<>>)}) :
          gl' = StrategyStep(gl, response)
    /\ UNCHANGED <<now, stale, fv, store, pass, rc, sr>>

GeoStep == GeoEnter \/ GeoRequest

\* Every value safe_run may return for an agent
SafeRunResults(agent_name, payloads) ==
    { safe_run(agent_name, outs) : outs \in Outcomes(payloads) }

\* modify_search_query_for_retry appending "Beach" whatever the content type
ModifyQueryAlwaysBeach(user_topic, content_type, attempt) ==
    IF attempt = 0
    THEN IF ~Contains(LowerStr(user_topic), <<"goa">>) THEN user_topic \o <<",", "Goa">>
         ELSE user_topic
    ELSE IF attempt = 1 THEN user_topic \o <<"Beach">>
    ELSE LET words == Split(user_topic)
         IN IF words # <<>> THEN <<words[1]>> ELSE user_topic

modify_search_query_for_retry(user_topic, content_type, attempt) ==
    IF attempt = 0
    THEN IF ~Contains(LowerStr(user_topic), <<"goa">>) THEN user_topic \o <<",", "Goa">>
         ELSE user_topic
    ELSE IF attempt = 1
    THEN CASE content_type = "beach" -> user_topic \o <<"Beach">>
           [] content_type = "restaurant" -> user_topic \o <<"Restaurant">>
           [] content_type = "event" -> user_topic \o <<"Festival">>
           [] OTHER -> user_topic
    ELSE LET words == Split(user_topic)
         IN IF words # <<>> THEN <<words[1]>> ELSE user_topic

----------------------------------------------------------------------------
(* Records and the store *)

\* A dict stored where text is expected (the JSON object an agent returned)
DictStr == <<"#dict">>

\* A key the JSON object does not hold
AbsentStr == <<"#absent">>

Location(address, lat, lon) == [address |-> address, latitude |-> lat, longitude |-> lon]

NoRecord ==
    [exists |-> FALSE, slug |-> <<>>, postType |-> "blog",
     location |-> Location(NoneStr, 0, 0), shortDescription |-> <<>>, text |-> <<>>,
     guidelines |-> <<>>, createdAt |-> CreatedAtFalsy, updatedAt |-> -1]

Record(slug, postType, location, shortDescription, text, guidelines, createdAt) ==
    [exists |-> TRUE, slug |-> slug, postType |-> postType, location |-> location,
     shortDescription |-> shortDescription, text |-> text, guidelines |-> guidelines,
     createdAt |-> createdAt, updatedAt |-> -1]

\* topic.lower().replace(' ', '-'); the implicit blank between two words becomes
\* an implicit hyphen
Slug(topic) == [i \in 1..Len(topic) |-> IF IsSpace(topic[i]) THEN "-" ELSE Lower(topic[i])]

\* find_one({"slug": slug}), else find_one by the case-insensitive title; the
\* title of a Record is topic.title(), which the slug determines here.
get_document_by_topic(topic, goa_db, collection) ==
    IF ~goa_db THEN NoRecord
    ELSE IF collection.exists /\ collection.slug = Slug(topic) THEN collection
    ELSE NoRecord

TextFields == {"shortDescription", "text", "guidelines"}

NoUpdates ==
    [keys |-> {}, location |-> Location(NoneStr, 0, 0), shortDescription |-> <<>>,
     text |-> <<>>, guidelines |-> <<>>]

\* updated_fields[key] = value
Stage(updated_fields, key, value) ==
    [updated_fields EXCEPT !.keys = @ \cup {key}, ![key] = value]

\* SetFields replacing the document: the text fields the update does not
\* name are emptied
SetFieldsReplace(doc, updates, updatedAt) ==
    [doc EXCEPT
       !.location = IF "location" \in updates.keys THEN updates.location ELSE @,
       !.shortDescription = IF "shortDescription" \in updates.keys
                            THEN updates.shortDescription ELSE <<>>,
       !.text = IF "text" \in updates.keys THEN updates.text ELSE <<>>,
       !.guidelines = IF "guidelines" \in updates.keys THEN updates.guidelines ELSE <<>>,
       !.updatedAt = updatedAt]

\* update_one({"slug": slug}, {"$set": updates}) on a collection holding doc
SetFields(doc, updates, updatedAt) ==
    [doc EXCEPT
       !.location = IF "location" \in updates.keys THEN updates.location ELSE @,
       !.shortDescription = IF "shortDescription" \in updates.keys
                            THEN updates.shortDescription ELSE @,
       !.text = IF "text" \in updates.keys THEN updates.text ELSE @,
       !.guidelines = IF "guidelines" \in updates.keys THEN updates.guidelines ELSE @,
       !.updatedAt = updatedAt]

\* update_document_partial: updatedAt is added to the $set and one update_one
\* is issued; applied says whether it modified the document (it may raise, which
\* is caught, or match nothing).
update_document_partial(collection, slug, updates, clock, applied) ==
    IF applied /\ collection.exists /\ collection.slug = slug
    THEN SetFields(collection, updates, clock)
    ELSE collection

\* insert_into_mongodb: nothing without a connection or when the ping or the
\* write raises (reachable = FALSE); else update_one({"slug"}, {"$set": output})
\* when the slug is stored, which sets every key of output and keeps the keys
\* output lacks (updatedAt), else insert_one(output).
insert_into_mongodb(collection, output, goa_db, reachable) ==
    IF ~goa_db \/ ~reachable THEN collection
    ELSE IF collection.exists /\ collection.slug = output.slug
         THEN [output EXCEPT !.updatedAt = collection.updatedAt]
         ELSE output

\* The texts of the generators
AgentTextOf(agent_name, topic) ==
    CASE agent_name = "description_agent" -> topic \o <<"at", "a", "glance">>
      [] agent_name = "content_agent" -> <<"<p>">> \o topic \o <<"in", "depth", "</p>">>
      [] agent_name = "guidelines_agent" -> <<"Rules", "for">> \o topic
      [] OTHER -> <<"unsure">>

\* What a text generator may answer: its text, or a JSON object
TextPayloads(agent_name, topic) ==
    { AgentText(AgentTextOf(agent_name, topic)), AgentDict([any |-> "true"]) }

DefaultDescription(topic) ==
    <<"Discover">> \o topic \o <<",", "a", "beautiful", "destination", "in", "Goa", ".">>
DefaultText(topic) ==
    <<"<p>", "Explore">> \o topic \o <<"-", "a", "must-visit", "spot", "in", "Goa", ".", "</p>">>
DefaultGuidelines == <<"Always", "respect", "local", "rules", "and", "nature", ".">>

FallbackDescription(topic) ==
    topic \o <<"is", "a", "popular", "destination", "worth", "exploring", ".">>
FallbackText(topic) ==
    <<"<p>", "Welcome", "to">> \o topic
    \o <<".", "This", "destination", "offers", "unique", "experiences", "for", "travelers",
         ".", "</p>", "<p>", "Plan", "your", "visit", "and", "explore", "the", "local",
         "attractions", ".", "</p>">>
FallbackGuidelines(topic) ==
    <<"Check", "local", "guidelines", "before", "visiting">> \o topic \o <<".">>

----------------------------------------------------------------------------
(* fetch_and_validate_location: the bounded resolve/validate loop *)

\* location_data before its first assignment
Unbound == NoBest

FvIdle ==
    [pc |-> "idle", user_topic |-> <<>>, search_query |-> <<>>, content_type |-> "blog",
     max_retries |-> 0, attempt |-> 0, location_data |-> Unbound, ret |-> Unbound,
     resolves |-> 0, validates |-> 0, produced |-> Unbound, allRetry |-> TRUE,
     exit |-> "none", last_verdict |-> "none", pauses |-> 0, initial_query |-> <<>>,
     reformulations |-> {}]

\* The frame at the call
FvCall(user_topic, search_query, content_type, max_retries) ==
    [FvIdle EXCEPT !.pc = "enter", !.user_topic = user_topic,
                   !.search_query = search_query, !.content_type = content_type,
                   !.max_retries = max_retries, !.initial_query = search_query]

\* `continue` when attempts remain, else the given exit
FvContinue(f) == [f EXCEPT !.attempt = f.attempt + 1, !.pc = "resolve"]
\* `return location_data`; exit records which return statement it was: "valid"
\* (the validator accepted the candidate), "rejected" (an invalid verdict ended
\* the loop), "unvalidated" (the validation step failed on the last attempt),
\* "unresolved" (a resolver error or no address on the last attempt).
FvReturn(f, exit) == [f EXCEPT !.pc = "returned", !.ret = f.location_data, !.exit = exit]

\* for attempt in range(max_retries): with no iteration the final
\* `return location_data` reads an unassigned local (UnboundLocalError).
FetchEnter ==
    /\ fv.pc = "enter"
    /\ fv' = IF fv.max_retries > 0 THEN [fv EXCEPT !.pc = "resolve"]
             ELSE [fv EXCEPT !.pc = "raised"]
    /\ UNCHANGED <<now, stale, store, pass, gl, rc, sr>>

\* AfterResolve giving up on the first error candidate
AfterResolveNoRetry(f, loc) ==
    LET g == [f EXCEPT !.location_data = loc, !.produced = loc,
                       !.resolves = f.resolves + 1, !.allRetry = FALSE]
    IN IF Truthy(loc.error) THEN FvReturn(g, "unresolved")
       ELSE IF ~Truthy(loc.address)
       THEN IF f.attempt < f.max_retries - 1 THEN FvContinue(g)
            ELSE FvReturn(g, "unresolved")
       ELSE [g EXCEPT !.pc = "validate", !.allRetry = f.allRetry]

\* location_data = fetch_location(search_query), the error check, with
\* time.sleep(2) before its retry, and the address check
AfterResolve(f, loc) ==
    LET g == [f EXCEPT !.location_data = loc, !.produced = loc,
                       !.resolves = f.resolves + 1, !.allRetry = FALSE]
    IN IF Truthy(loc.error)
       THEN IF f.attempt < f.max_retries - 1
            THEN FvContinue([g EXCEPT !.pauses = f.pauses + 1])
            ELSE FvReturn(g, "unresolved")
       ELSE IF ~Truthy(loc.address)
       THEN IF f.attempt < f.max_retries - 1 THEN FvContinue(g)
            ELSE FvReturn(g, "unresolved")
       ELSE [g EXCEPT !.pc = "validate", !.allRetry = f.allRetry]

FetchResolve ==
    /\ fv.pc = "resolve"
    /\ \E loc \in FetchLocationResults(fv.search_query) :
          fv' = AfterResolve(fv, loc)
    /\ UNCHANGED <<now, stale, store, pass, gl, rc, sr>>

\* AfterValidate with the retry guard off by one: the last retry is never taken.
AfterValidateEarlyStop(f, validation_result) ==
    LET g == [f EXCEPT !.validates = f.validates + 1,
                       !.allRetry = f.allRetry /\ IsDict(validation_result)
                                    /\ validation_result.d.is_valid = "false"
                                    /\ validation_result.d.should_retry = "true"]
    IN IF IsDict(validation_result) /\ GetBool(validation_result.d.is_valid, FALSE)
       THEN FvReturn(g, "valid")
       ELSE IF f.attempt < f.max_retries - 2
            THEN FvContinue([g EXCEPT !.search_query =
                     modify_search_query_for_retry(f.user_topic, f.content_type, f.attempt)])
            ELSE FvReturn(g, "rejected")

\* What the validator said: a structured verdict that is valid, invalid with
\* should_retry false, or invalid otherwise; or no structured verdict
VerdictOf(validation_result) ==
    IF ~IsDict(validation_result) THEN "failed"
    ELSE IF validation_result.d.is_valid = "true" THEN "valid"
    ELSE IF validation_result.d.should_retry = "false" THEN "no_retry"
    ELSE "retry"

\* AfterValidate never reading should_retry: an invalid verdict is retried
\* while attempts remain
AfterValidateIgnoresNoRetry(f, validation_result) ==
    LET g == [f EXCEPT !.validates = f.validates + 1,
                       !.last_verdict = VerdictOf(validation_result)]
    IN IF IsDict(validation_result) /\ GetBool(validation_result.d.is_valid, FALSE)
       THEN FvReturn([g EXCEPT !.allRetry = FALSE], "valid")
       ELSE IF f.attempt < f.max_retries - 1
            THEN FvContinue([g EXCEPT !.allRetry = FALSE, !.search_query =
                     IF IsDict(validation_result)
                     THEN modify_search_query_for_retry(f.user_topic, f.content_type,
                                                        f.attempt)
                     ELSE @])
            ELSE FvReturn([g EXCEPT !.allRetry = FALSE], "rejected")

\* AfterValidate reformulating on every invalid verdict, the last attempt's
\* too, before it looks at the attempts left
AfterValidateLateReformulation(f, validation_result) ==
    LET g == [f EXCEPT !.validates = f.validates + 1,
                       !.last_verdict = VerdictOf(validation_result)]
    IN IF IsDict(validation_result) /\ GetBool(validation_result.d.is_valid, FALSE)
       THEN FvReturn([g EXCEPT !.allRetry = FALSE], "valid")
       ELSE IF ~IsDict(validation_result)
            THEN IF f.attempt < f.max_retries - 1
                 THEN FvContinue([g EXCEPT !.allRetry = FALSE])
                 ELSE FvReturn([g EXCEPT !.allRetry = FALSE], "unvalidated")
            ELSE LET h == [g EXCEPT !.allRetry =
                               f.allRetry /\ validation_result.d.is_valid = "false"
                                          /\ validation_result.d.should_retry = "true"]
                     r == [h EXCEPT
                             !.reformulations = @ \cup {f.attempt},
                             !.search_query =
                                 modify_search_query_for_retry(f.user_topic, f.content_type,
                                                               f.attempt)]
                 IN IF GetBool(validation_result.d.should_retry, TRUE)
                    THEN IF f.attempt < f.max_retries - 1 THEN FvContinue(r)
                         ELSE FvReturn(r, "rejected")
                    ELSE FvReturn(h, "rejected")

\* validation_result = await safe_run(validator_agent, ...) and what follows
\* it.  A str result makes validation_result.get raise AttributeError, which
\* the except clause catches.  reformulations: the attempts
\* modify_search_query_for_retry was called with.
AfterValidate(f, validation_result) ==
    LET g == [f EXCEPT !.validates = f.validates + 1,
                       !.last_verdict = VerdictOf(validation_result)]
    IN IF IsDict(validation_result) /\ GetBool(validation_result.d.is_valid, FALSE)
       THEN FvReturn([g EXCEPT !.allRetry = FALSE], "valid")
       ELSE IF ~IsDict(validation_result)
            THEN IF f.attempt < f.max_retries - 1
                 THEN FvContinue([g EXCEPT !.allRetry = FALSE])
                 ELSE FvReturn([g EXCEPT !.allRetry = FALSE], "unvalidated")
            ELSE LET h == [g EXCEPT !.allRetry =
                               f.allRetry /\ validation_result.d.is_valid = "false"
                                          /\ validation_result.d.should_retry = "true"]
                 IN IF GetBool(validation_result.d.should_retry, TRUE)
                       /\ f.attempt < f.max_retries - 1
                    THEN FvContinue([h EXCEPT
                             !.reformulations = @ \cup {f.attempt},
                             !.search_query =
                                 modify_search_query_for_retry(f.user_topic, f.content_type,
                                                               f.attempt)])
                    ELSE FvReturn(h, "rejected")

FetchValidate ==
    /\ fv.pc = "validate"
    /\ \E validation_result \in SafeRunResults("location_validator_agent", ValidatorPayloads) :
          fv' = AfterValidate(fv, validation_result)
    /\ UNCHANGED <<now, stale, store, pass, gl, rc, sr>>

FetchStep == FetchEnter \/ FetchResolve \/ FetchValidate

----------------------------------------------------------------------------
(* smart_content_generation: one reconcile pass over the topic's Record *)

NoChecks == [f \in TextFields |-> [needs |-> "none", regen |-> "none"]]

PassIdle ==
    [pc |-> "idle", path |-> "none", user_topic |-> <<>>, goa_db |-> FALSE,
     has_key |-> TRUE, existing_doc |-> NoRecord, needs_update |-> FALSE,
     updated_fields |-> NoUpdates, content_type |-> "blog", search_query |-> <<>>,
     location_data |-> UnsetLocation, gen_db |-> FALSE, output |-> NoRecord,
     ret |-> NoRecord, error |-> "none", updates_issued |-> 0, checks |-> NoChecks,
     validated |-> "none", validator_kind |-> "none", fetch_runs |-> 0,
     fetch_exit |-> "none", run |-> 1, should_fetch |-> "none"]

PassTopics == { <<"Colva", "Beach">> }

\* An exception leaves smart_content_generation
PassRaise(p, error) == [p EXCEPT !.pc = "raised", !.error = error]

\* goa_db = get_mongodb_connection(); existing_doc = get_document_by_topic(...).
\* The connection may fail (goa_db = None); has_key says whether the generation
\* service's credentials are configured.
PassStart ==
    /\ pass.pc = "idle"
    /\ \E tp \in PassTopics, db \in BOOLEAN, key \in BOOLEAN :
          LET doc == get_document_by_topic(tp, db, store)
          IN pass' = [PassIdle EXCEPT
                        !.pc = IF doc.exists THEN "validate_existing" ELSE "gen_connect",
                        !.path = IF doc.exists THEN "existing" ELSE "new",
                        !.user_topic = tp, !.goa_db = db, !.has_key = key,
                        !.existing_doc = doc]
    /\ UNCHANGED <<now, stale, fv, store, gl, rc, sr>>

\* validate_existing_location_in_db failing closed: needs_update when the
\* validator gave no structured verdict
validate_existing_location_in_db_strict(document, validation_result) ==
    IF ~Truthy(document.location.address)
    THEN [needs_update |-> TRUE, validated |-> "skipped", asked |-> FALSE]
    ELSE IF IsDict(validation_result)
         THEN [needs_update |-> ~GetBool(validation_result.d.is_valid, FALSE),
               validated |-> "verdict", asked |-> TRUE]
         ELSE [needs_update |-> TRUE, validated |-> "permissive", asked |-> TRUE]

\* validate_existing_location_in_db on the safe_run result of the validator;
\* asked: the validator was called (not so when the stored address is empty)
validate_existing_location_in_db(document, validation_result) ==
    IF ~Truthy(document.location.address)
    THEN [needs_update |-> TRUE, validated |-> "skipped", asked |-> FALSE]
    ELSE IF IsDict(validation_result)
         THEN [needs_update |-> ~GetBool(validation_result.d.is_valid, FALSE),
               validated |-> "verdict", asked |-> TRUE]
         ELSE [needs_update |-> FALSE, validated |-> "permissive", asked |-> TRUE]

\* teamConfig() raises RuntimeError without credentials; then the stored
\* location is validated.
ValidateExisting ==
    /\ pass.pc = "validate_existing"
    /\ IF ~pass.has_key
       THEN pass' = PassRaise(pass, "config")
       ELSE \E validation_result \in
                  SafeRunResults("location_validator_agent", ValidatorPayloads) :
              LET v == validate_existing_location_in_db(pass.existing_doc, validation_result)
              IN pass' = [pass EXCEPT
                            !.needs_update = v.needs_update, !.validated = v.validated,
                            !.validator_kind = IF v.asked THEN ResultKind(validation_result)
                                               ELSE "none",
                            !.pc = IF v.needs_update THEN "loc_decide" ELSE "desc"]
    /\ UNCHANGED <<now, stale, fv, store, gl, rc, sr>>

\* What the smart-location capability may answer
LocationPayloads ==
    { AgentDict([should_fetch |-> sf, search_query |-> q]) :
        sf \in Tri, q \in {AbsentStr, <<>>, <<"Colva">>} }
    \cup { AgentText(<<"unsure">>) }

ShouldFetch(location_result) == GetBool(location_result.d.should_fetch, TRUE)
SearchQuery(location_result, user_topic) ==
    IF location_result.d.search_query = AbsentStr THEN user_topic
    ELSE location_result.d.search_query

\* location_result = await safe_run(smart_location_agent, ...); a str result
\* makes location_result.get raise AttributeError.
LocDecide ==
    /\ pass.pc = "loc_decide"
    /\ \E location_result \in SafeRunResults("smart_location_agent", LocationPayloads) :
          IF IsStr(location_result)
          THEN /\ pass' = PassRaise(pass, "AttributeError")
               /\ fv' = fv
          ELSE IF ShouldFetch(location_result)
               THEN /\ pass' = [pass EXCEPT
                                  !.pc = "loc_fetch", !.fetch_runs = @ + 1,
                                  !.search_query =
                                      SearchQuery(location_result, pass.user_topic)]
                    /\ fv' = FvCall(pass.user_topic,
                                    SearchQuery(location_result, pass.user_topic),
                                    pass.existing_doc.postType, DefaultMaxRetries)
               ELSE /\ pass' = [pass EXCEPT !.pc = "desc"]
                    /\ fv' = fv
    /\ UNCHANGED <<now, stale, store, gl, rc, sr>>

\* The candidate is staged when it has an address and no error.
StageLocation(p, new_location) ==
    IF ~Truthy(new_location.error) /\ Truthy(new_location.address)
    THEN [p EXCEPT !.updated_fields =
              Stage(@, "location", Location(new_location.address, new_location.latitude,
                                            new_location.longitude))]
    ELSE p

\* new_location = await fetch_and_validate_location(...) has returned
LocFetched ==
    /\ pass.pc = "loc_fetch"
    /\ fv.pc = "returned"
    /\ pass' = [StageLocation(pass, fv.ret) EXCEPT !.pc = "desc", !.fetch_exit = fv.exit]
    /\ fv' = FvIdle
    /\ UNCHANGED <<now, stale, store, gl, rc, sr>>

\* needs_field_update on a stored value; a stored dict has no strip()
NeedsUpdateStored(old, user_topic, created_at, is_content_field, clock) ==
    IF old = DictStr THEN Raised
    ELSE needs_field_update(old, user_topic, created_at, is_content_field, clock)

\* FieldStep regenerating whatever the staleness check says
FieldStepUnconditional(p, field, is_content_field, new_value, next_pc, clock) ==
    LET needs == NeedsUpdateStored(p.existing_doc[field], p.user_topic,
                                   p.existing_doc.createdAt, is_content_field, clock)
    IN IF needs.raised
       THEN PassRaise([p EXCEPT !.checks[field].needs = "raised"], "TypeError")
       ELSE LET q == [p EXCEPT !.checks[field] =
                          [needs |-> IF needs.value THEN "true" ELSE "false",
                           regen |-> ResultKind(new_value)]]
            IN IF IsDict(new_value) THEN PassRaise(q, "AttributeError")
               ELSE IF ~IsBlank(new_value.text)
               THEN [q EXCEPT !.pc = next_pc,
                              !.updated_fields = Stage(@, field, new_value.text)]
               ELSE [q EXCEPT !.pc = next_pc]

\* FieldStep without the `new_value.strip()` test: a blank result is staged
FieldStepStageBlank(p, field, is_content_field, new_value, next_pc, clock) ==
    LET needs == NeedsUpdateStored(p.existing_doc[field], p.user_topic,
                                   p.existing_doc.createdAt, is_content_field, clock)
    IN IF needs.raised
       THEN PassRaise([p EXCEPT !.checks[field].needs = "raised"], "TypeError")
       ELSE IF ~needs.value
       THEN [p EXCEPT !.pc = next_pc, !.checks[field].needs = "false"]
       ELSE LET q == [p EXCEPT !.checks[field] =
                          [needs |-> "true", regen |-> ResultKind(new_value)]]
            IN IF IsDict(new_value) THEN PassRaise(q, "AttributeError")
               ELSE [q EXCEPT !.pc = next_pc,
                              !.updated_fields = Stage(@, field, new_value.text)]

\* One of the three field blocks: the staleness check of the stored value, the
\* regeneration call when it is stale, and the staging of a non-blank result.
\* new_value.strip() raises AttributeError on a dict.
FieldStep(p, field, is_content_field, new_value, next_pc, clock) ==
    LET needs == NeedsUpdateStored(p.existing_doc[field], p.user_topic,
                                   p.existing_doc.createdAt, is_content_field, clock)
    IN IF needs.raised
       THEN PassRaise([p EXCEPT !.checks[field].needs = "raised"], "TypeError")
       ELSE IF ~needs.value
       THEN [p EXCEPT !.pc = next_pc, !.checks[field].needs = "false"]
       ELSE LET q == [p EXCEPT !.checks[field] =
                          [needs |-> "true", regen |-> ResultKind(new_value)]]
            IN IF IsDict(new_value) THEN PassRaise(q, "AttributeError")
               ELSE IF ~IsBlank(new_value.text)
               THEN [q EXCEPT !.pc = next_pc,
                              !.updated_fields = Stage(@, field, new_value.text)]
               ELSE [q EXCEPT !.pc = next_pc]

\* CheckDescription writing its field through as soon as it is staged
CheckDescriptionWriteThrough ==
    /\ pass.pc = "desc"
    /\ \E new_description \in
           SafeRunResults("description_agent",
                          TextPayloads("description_agent", pass.user_topic)) :
          /\ pass' = FieldStep(pass, "shortDescription", FALSE, new_description,
                               "content", now)
          /\ store' = update_document_partial(store, pass.existing_doc.slug,
                                              pass'.updated_fields, now, TRUE)
    /\ UNCHANGED <<now, stale, fv, gl, rc, sr>>

CheckDescription ==
    /\ pass.pc = "desc"
    /\ \E new_description \in
           SafeRunResults("description_agent",
                          TextPayloads("description_agent", pass.user_topic)) :
          pass' = FieldStep(pass, "shortDescription", FALSE, new_description, "content", now)
    /\ UNCHANGED <<now, stale, fv, store, gl, rc, sr>>

CheckContent ==
    /\ pass.pc = "content"
    /\ \E new_content \in
           SafeRunResults("content_agent", TextPayloads("content_agent", pass.user_topic)) :
          pass' = FieldStep(pass, "text", TRUE, new_content, "guidelines", now)
    /\ UNCHANGED <<now, stale, fv, store, gl, rc, sr>>

CheckGuidelines ==
    /\ pass.pc = "guidelines"
    /\ \E new_guidelines \in
           SafeRunResults("guidelines_agent",
                          TextPayloads("guidelines_agent", pass.user_topic)) :
          pass' = FieldStep(pass, "guidelines", FALSE, new_guidelines, "write", now)
    /\ UNCHANGED <<now, stale, fv, store, gl, rc, sr>>

\* WriteUpdates without the `if updated_fields` test: the update is issued,
\* with updatedAt alone, also when nothing was staged
WriteUpdatesAlways ==
    /\ pass.pc = "write"
    /\ \E applied \in BOOLEAN :
          store' = update_document_partial(store, pass.existing_doc.slug,
                                           pass.updated_fields, now, applied)
    /\ pass' = IF pass.updated_fields.keys # {}
               THEN [pass EXCEPT !.pc = "refresh", !.updates_issued = @ + 1]
               ELSE [pass EXCEPT !.pc = "returned", !.ret = pass.existing_doc]
    /\ UNCHANGED <<now, stale, fv, gl, rc, sr>>

\* if updated_fields: update_document_partial(...), else return existing_doc
WriteUpdates ==
    /\ pass.pc = "write"
    /\ IF pass.updated_fields.keys # {}
       THEN \E applied \in BOOLEAN :
              /\ store' = update_document_partial(store, pass.existing_doc.slug,
                                                  pass.updated_fields, now, applied)
              /\ pass' = [pass EXCEPT !.pc = "refresh", !.updates_issued = @ + 1]
       ELSE /\ store' = store
            /\ pass' = [pass EXCEPT !.pc = "returned", !.ret = pass.existing_doc]
    /\ UNCHANGED <<now, stale, fv, gl, rc, sr>>

\* updated_doc = get_document_by_topic(...); return updated_doc, ...,
\* updated_doc.get('postType', 'blog'), ...
Refresh ==
    /\ pass.pc = "refresh"
    /\ LET updated_doc == get_document_by_topic(pass.user_topic, pass.goa_db, store)
       IN pass' = IF updated_doc.exists
                  THEN [pass EXCEPT !.pc = "returned", !.ret = updated_doc]
                  ELSE PassRaise(pass, "AttributeError")
    /\ UNCHANGED <<now, stale, fv, store, gl, rc, sr>>

-----------------------------------------------------------------------------
(* safe_run step by step *)

\* The frame of one safe_run call: attempt is the loop index, calls counts the
\* invocations of agent.run and seen lists what they did.
SrIdle ==
    [pc |-> "idle", agent_name |-> "none", attempt |-> 0, calls |-> 0, seen |-> <<>>,
     ret |-> EmptyStr]

AgentPayloads(agent_name) ==
    CASE agent_name = "smart_location_agent" -> LocationPayloads
      [] agent_name = "location_validator_agent" -> ValidatorPayloads
      [] OTHER -> TextPayloads(agent_name, <<"Colva">>)

\* SafeRunStep returning "" after the last attempt whatever the agent
SafeRunStepUntypedFallback(s, result) ==
    LET t == [s EXCEPT !.calls = s.calls + 1, !.seen = Append(s.seen, result)]
    IN IF result.kind \in {"raise", "empty"}
       THEN IF s.attempt + 1 < SafeRunRetries THEN [t EXCEPT !.attempt = s.attempt + 1]
            ELSE [t EXCEPT !.pc = "returned", !.ret = EmptyStr]
       ELSE [t EXCEPT !.pc = "returned", !.ret = result]

\* One iteration of `for attempt in range(retries)`: agent.run is awaited; a
\* usable result is returned, an exception or an empty result goes to the next
\* attempt, and after the last attempt the fallback of the agent is returned.
SafeRunStep(s, result) ==
    LET t == [s EXCEPT !.calls = s.calls + 1, !.seen = Append(s.seen, result)]
    IN IF result.kind \in {"raise", "empty"}
       THEN IF s.attempt + 1 < SafeRunRetries THEN [t EXCEPT !.attempt = s.attempt + 1]
            ELSE [t EXCEPT !.pc = "returned",
                           !.ret = IF s.agent_name = "smart_location_agent"
                                   THEN SmartLocationFallback ELSE EmptyStr]
       ELSE [t EXCEPT !.pc = "returned", !.ret = result]

SafeRunAttempt ==
    /\ sr.pc = "loop"
    /\ \E result \in {AgentRaise, AgentEmpty} \cup AgentPayloads(sr.agent_name) :
          sr' = SafeRunStep(sr, result)
    /\ UNCHANGED <<now, stale, fv, store, pass, gl, rc>>

-----------------------------------------------------------------------------
(* Two passes of smart_content_generation on the same slug *)

\* Each pass runs in its own process on the shared store.  Between the lookup
\* and the update a pass touches the store nowhere, so its field checks are
\* one step here.  The passes taken are those that stage no location.
RaceIdle == [p |-> <<PassIdle, PassIdle>>, log |-> <<>>, orig |-> NoRecord]

Racers == {1, 2}

\* What a text generator may answer in one pass or the other
RacePayloads(agent_name, topic) ==
    TextPayloads(agent_name, topic)
    \cup { AgentText(AgentTextOf(agent_name, topic) \o <<"anew">>) }

\* existing_doc = get_document_by_topic(user_topic, goa_db)
RaceRead(i) ==
    /\ rc.p[i].pc = "idle"
    /\ \E tp \in PassTopics :
          LET doc == get_document_by_topic(tp, TRUE, store)
          IN /\ doc.exists
             /\ rc' = [rc EXCEPT !.p[i] = [PassIdle EXCEPT
                          !.pc = "desc", !.path = "existing", !.user_topic = tp,
                          !.goa_db = TRUE, !.existing_doc = doc]]
    /\ UNCHANGED <<now, stale, fv, store, pass, gl, sr>>

\* The three field blocks of the pass, in order
RaceStage(i) ==
    /\ rc.p[i].pc = "desc"
    /\ \E d \in SafeRunResults("description_agent",
                                RacePayloads("description_agent", rc.p[i].user_topic)),
          c \in SafeRunResults("content_agent",
                                RacePayloads("content_agent", rc.p[i].user_topic)),
          g \in SafeRunResults("guidelines_agent",
                                RacePayloads("guidelines_agent", rc.p[i].user_topic)) :
          LET q1 == FieldStep(rc.p[i], "shortDescription", FALSE, d, "content", now)
              q2 == IF q1.pc = "raised" THEN q1
                    ELSE FieldStep(q1, "text", TRUE, c, "guidelines", now)
              q3 == IF q2.pc = "raised" THEN q2
                    ELSE FieldStep(q2, "guidelines", FALSE, g, "write", now)
          IN rc' = [rc EXCEPT !.p[i] = q3]
    /\ UNCHANGED <<now, stale, fv, store, pass, gl, sr>>

\* if updated_fields: update_document_partial(...), else return existing_doc
RaceWrite(i) ==
    /\ rc.p[i].pc = "write"
    /\ IF rc.p[i].updated_fields.keys # {}
       THEN \E applied \in BOOLEAN :
              /\ store' = update_document_partial(store, rc.p[i].existing_doc.slug,
                                                  rc.p[i].updated_fields, now, applied)
              /\ rc' = [rc EXCEPT !.p[i].pc = "refresh", !.p[i].updates_issued = @ + 1,
                                  !.log = Append(@, [who |-> i, applied |-> applied])]
       ELSE /\ store' = store
            /\ rc' = [rc EXCEPT !.p[i].pc = "returned", !.p[i].ret = rc.p[i].existing_doc]
    /\ UNCHANGED <<now, stale, fv, pass, gl, sr>>

\* updated_doc = get_document_by_topic(...); return updated_doc
RaceRefresh(i) ==
    /\ rc.p[i].pc = "refresh"
    /\ rc' = [rc EXCEPT !.p[i].pc = "returned",
                        !.p[i].ret = get_document_by_topic(rc.p[i].user_topic, TRUE, store)]
    /\ UNCHANGED <<now, stale, fv, store, pass, gl, sr>>

RaceStep == \E i \in Racers : RaceRead(i) \/ RaceStage(i) \/ RaceWrite(i) \/ RaceRefresh(i)

-----------------------------------------------------------------------------
(* run_agent_original_with_validation and generate_basic_fallback *)

\* str.strip()
RECURSIVE LStrip(_)
LStrip(s) == IF s # <<>> /\ IsSpace(Head(s)) THEN LStrip(Tail(s)) ELSE s
RECURSIVE RStrip(_)
RStrip(s) ==
    IF s # <<>> /\ IsSpace(s[Len(s)]) THEN RStrip(SubSeq(s, 1, Len(s) - 1)) ELSE s
Strip(s) == RStrip(LStrip(s))

\* An exception inside the try of the new-topic branch
GenRaise(p, error) == [p EXCEPT !.pc = "fallback", !.error = error]

\* goa_db = get_mongodb_connection() of the generator itself, then the key check
GenConnect ==
    /\ pass.pc = "gen_connect"
    /\ \E db \in BOOLEAN :
          pass' = IF ~pass.has_key
                  THEN GenRaise([pass EXCEPT !.gen_db = db], "RuntimeError")
                  ELSE [pass EXCEPT !.gen_db = db, !.pc = "gen_classify"]
    /\ UNCHANGED <<now, stale, fv, store, gl, rc, sr>>

ClassifierPayloads ==
    { AgentDict([type |-> "beach"]), AgentDict([type |-> "absent"]),
      AgentText(<<"beach">>) }

ContentType(content_type_result) ==
    IF IsDict(content_type_result)
    THEN IF content_type_result.d.type = "absent" THEN "blog"
         ELSE content_type_result.d.type
    ELSE "blog"

GenClassify ==
    /\ pass.pc = "gen_classify"
    /\ \E content_type_result \in
           SafeRunResults("content_classifier_agent", ClassifierPayloads) :
          pass' = [pass EXCEPT !.pc = "gen_decide",
                               !.content_type = ContentType(content_type_result)]
    /\ UNCHANGED <<now, stale, fv, store, gl, rc, sr>>

\* GenDecide fetching for every non-empty query, whatever should_fetch says
GenDecideIgnoresShouldFetch ==
    /\ pass.pc = "gen_decide"
    /\ \E location_decision \in SafeRunResults("smart_location_agent", LocationPayloads) :
          IF IsStr(location_decision)
          THEN /\ pass' = GenRaise(pass, "AttributeError")
               /\ fv' = fv
          ELSE LET search_query == Strip(SearchQuery(location_decision, pass.user_topic))
                   decided == IF ShouldFetch(location_decision) THEN "true" ELSE "false"
               IN IF search_query # <<>>
                  THEN /\ pass' = [pass EXCEPT !.pc = "gen_fetch", !.fetch_runs = @ + 1,
                                               !.should_fetch = decided,
                                               !.search_query = search_query]
                       /\ fv' = FvCall(pass.user_topic, search_query, pass.content_type,
                                       DefaultMaxRetries)
                  ELSE /\ pass' = [pass EXCEPT !.pc = "gen_fields",
                                               !.should_fetch = decided,
                                               !.search_query = search_query,
                                               !.location_data = UnsetLocation]
                       /\ fv' = fv
    /\ UNCHANGED <<now, stale, store, gl, rc, sr>>

\* location_decision.get(...) raises on a str; the fetch is made only for a
\* truthy should_fetch and a non-empty stripped query.
GenDecide ==
    /\ pass.pc = "gen_decide"
    /\ \E location_decision \in SafeRunResults("smart_location_agent", LocationPayloads) :
          IF IsStr(location_decision)
          THEN /\ pass' = GenRaise(pass, "AttributeError")
               /\ fv' = fv
          ELSE LET search_query == Strip(SearchQuery(location_decision, pass.user_topic))
               IN IF ShouldFetch(location_decision) /\ search_query # <<>>
                  THEN /\ pass' = [pass EXCEPT !.pc = "gen_fetch", !.fetch_runs = @ + 1,
                                               !.should_fetch = "true",
                                               !.search_query = search_query]
                       /\ fv' = FvCall(pass.user_topic, search_query, pass.content_type,
                                       DefaultMaxRetries)
                  ELSE /\ pass' = [pass EXCEPT !.pc = "gen_fields",
                                               !.should_fetch =
                                                   IF ShouldFetch(location_decision)
                                                   THEN "true" ELSE "false",
                                               !.search_query = search_query,
                                               !.location_data = UnsetLocation]
                       /\ fv' = fv
    /\ UNCHANGED <<now, stale, store, gl, rc, sr>>

GoaIndiaSuffix == <<",", "Goa", ",", "India">>

\* fetch_and_validate_location has returned; on an error or a missing address
\* the basic fetch of "<query>, Goa, India" replaces the candidate.
GenFetched ==
    /\ pass.pc = "gen_fetch"
    /\ fv.pc = "returned"
    /\ IF Truthy(fv.ret.error) \/ ~Truthy(fv.ret.address)
       THEN \E location_data \in
                  FetchLocationResults(pass.search_query \o GoaIndiaSuffix) :
              pass' = [pass EXCEPT !.pc = "gen_fields", !.fetch_exit = "basic",
                                   !.location_data = location_data]
       ELSE pass' = [pass EXCEPT !.pc = "gen_fields", !.fetch_exit = fv.exit,
                                 !.location_data = fv.ret]
    /\ fv' = FvIdle
    /\ UNCHANGED <<now, stale, store, gl, rc, sr>>

\* value or default: an empty str gives the default, a dict is kept
OrDefault(r, default) ==
    IF IsDict(r) THEN DictStr ELSE IF r.text = <<>> THEN default ELSE r.text

final_location(location_data) ==
    IF Truthy(location_data.address)
    THEN Location(location_data.address, location_data.latitude, location_data.longitude)
    ELSE Location(NoneStr, 0, 0)

\* The remaining generators run, output is assembled and its JSON snapshot is
\* written to disk (io_ok = FALSE: the file cannot be written, OSError).
GenFields ==
    /\ pass.pc = "gen_fields"
    /\ \E description \in SafeRunResults("description_agent",
                                          TextPayloads("description_agent", pass.user_topic)),
          content \in SafeRunResults("content_agent",
                                     TextPayloads("content_agent", pass.user_topic)),
          guidelines \in SafeRunResults("guidelines_agent",
                                        TextPayloads("guidelines_agent", pass.user_topic)),
          io_ok \in BOOLEAN :
          LET output == Record(Slug(pass.user_topic), pass.content_type,
                               final_location(pass.location_data),
                               OrDefault(description, DefaultDescription(pass.user_topic)),
                               OrDefault(content, DefaultText(pass.user_topic)),
                               OrDefault(guidelines, DefaultGuidelines),
                               CreatedAtDatetime(now, FALSE))
          IN pass' = IF io_ok THEN [pass EXCEPT !.pc = "gen_insert", !.output = output]
                     ELSE GenRaise(pass, "OSError")
    /\ UNCHANGED <<now, stale, fv, store, gl, rc, sr>>

\* insert_into_mongodb(output, goa_db) on the generator's connection; return output
GenInsert ==
    /\ pass.pc = "gen_insert"
    /\ \E reachable \in BOOLEAN :
          store' = insert_into_mongodb(store, pass.output, pass.gen_db, reachable)
    /\ pass' = [pass EXCEPT !.pc = "returned", !.path = "generated", !.ret = pass.output]
    /\ UNCHANGED <<now, stale, fv, gl, rc, sr>>

basic_content(user_topic, clock) ==
    Record(Slug(user_topic), "blog", Location(NoneStr, 0, 0),
           FallbackDescription(user_topic), FallbackText(user_topic),
           FallbackGuidelines(user_topic), CreatedAtDatetime(clock, FALSE))

\* generate_basic_fallback(user_topic, more_details, goa_db) with the connection
\* of smart_content_generation
Fallback ==
    /\ pass.pc = "fallback"
    /\ \E reachable \in BOOLEAN :
          store' = insert_into_mongodb(store, basic_content(pass.user_topic, now),
                                       pass.goa_db, reachable)
    /\ pass' = [pass EXCEPT !.pc = "returned", !.path = "fallback",
                            !.ret = basic_content(pass.user_topic, now)]
    /\ UNCHANGED <<now, stale, fv, gl, rc, sr>>

\* Wall-clock time passes before the pass is started
PassMaxNow == (DaysThreshold + 1) * UnitsPerDay

Tick ==
    /\ pass.pc = "idle"
    /\ now < PassMaxNow
    /\ now' = IF now < DaysThreshold * UnitsPerDay THEN DaysThreshold * UnitsPerDay
              ELSE now + 1
    /\ UNCHANGED <<stale, fv, store, pass, gl, rc, sr>>

PassStep ==
    \/ PassStart
    \/ ValidateExisting
    \/ LocDecide
    \/ LocFetched
    \/ CheckDescription
    \/ CheckContent
    \/ CheckGuidelines
    \/ WriteUpdates
    \/ Refresh
    \/ GenConnect
    \/ GenClassify
    \/ GenDecide
    \/ GenFetched
    \/ GenFields
    \/ GenInsert
    \/ Fallback

\* No staleness rule holds for a text field of the stored Record
FieldsFresh(doc, user_topic, clock) ==
    \A f \in TextFields :
        LET needs == NeedsUpdateStored(doc[f], user_topic, doc.createdAt, f = "text", clock)
        IN ~needs.raised /\ ~needs.value

\* smart_content_generation is called again for the same topic right after the
\* run that created the Record: the Record it returned is the stored one, it has
\* an address and fresh text fields, and the lookup of the second run finds it.
PassAgain ==
    /\ pass.pc = "returned"
    /\ pass.run = 1
    /\ pass.path = "generated"
    /\ store = pass.output
    /\ Truthy(store.location.address)
    /\ FieldsFresh(store, pass.user_topic, now)
    /\ LET doc == get_document_by_topic(pass.user_topic, TRUE, store)
       IN pass' = [PassIdle EXCEPT
                     !.pc = "validate_existing", !.path = "existing", !.run = 2,
                     !.user_topic = pass.user_topic, !.goa_db = TRUE,
                     !.has_key = pass.has_key, !.existing_doc = doc]
    /\ UNCHANGED <<now, stale, fv, store, gl, rc, sr>>

----------------------------------------------------------------------------
(* Harness of the staleness predicate: one call on drawn arguments *)

StaleVocab == {" ", "Baga", "colva", "mumbai", "Popular", "destination", "2023"}

StaleTexts == UNION { [1..n -> StaleVocab] : n \in 0..MaxTextLen }

StaleTopics == { <<"Colva">>, <<"Baga">> }

\* The clock of the harness, late enough for a Record older than the threshold.
StaleNow == (DaysThreshold + 1) * UnitsPerDay + MaxExtraAge

StaleAges == {0} \cup ((DaysThreshold * UnitsPerDay - 1)..StaleNow)

CreatedAts(clock, ages) ==
    {CreatedAtFalsy, CreatedAtBadStr}
    \cup { CreatedAtStr(clock - a, aw) : a \in ages, aw \in BOOLEAN }
    \cup { CreatedAtDatetime(clock - a, aw) : a \in ages, aw \in BOOLEAN }

StaleIdle ==
    [called |-> FALSE, field |-> <<>>, topic |-> <<>>, created_at |-> CreatedAtFalsy,
     is_content_field |-> FALSE, res |-> Returned(FALSE)]

StaleInputs(clock) ==
    { [called |-> FALSE, field |-> f, topic |-> tp, created_at |-> c,
       is_content_field |-> icf, res |-> Returned(FALSE)] :
      f \in StaleTexts, tp \in StaleTopics,
      c \in CreatedAts(clock, StaleAges), icf \in BOOLEAN }

StaleCall ==
    /\ ~stale.called
    /\ stale # StaleIdle
    /\ stale' = [stale EXCEPT
                   !.called = TRUE,
                   !.res = needs_field_update(stale.field, stale.topic, stale.created_at,
                                              stale.is_content_field, now)]
    /\ UNCHANGED <<now, fv, store, pass, gl, rc, sr>>


----------------------------------------------------------------------------
(* Specifications *)

\* Harness: one call on drawn arguments
FetchTopics == { <<"Colva", "Beach">>, <<"Momos">>, <<"Goa", " ", "Carnival">> }
FetchQueries == { <<>>, <<"Colva">>, <<"Colva", "Beach">> }
FetchTypes == { "beach", "restaurant", "event", "blog" }

InitFetch ==
    /\ now = 0
    /\ stale = StaleIdle
    /\ fv \in { FvCall(tp, q, ct, m) :
                  tp \in FetchTopics, q \in FetchQueries, ct \in FetchTypes,
                  m \in 0..MaxRetriesBound }
    /\ store = NoRecord
    /\ pass = PassIdle
    /\ gl = GeoIdle
    /\ rc = RaceIdle
    /\ sr = SrIdle

NextFetch == FetchStep

SpecFetch == InitFetch /\ [][NextFetch]_vars

InitStale ==
    /\ now = StaleNow
    /\ stale \in StaleInputs(now)
    /\ fv = FvIdle
    /\ store = NoRecord
    /\ pass = PassIdle
    /\ gl = GeoIdle
    /\ rc = RaceIdle
    /\ sr = SrIdle

NextStale == StaleCall

SpecStale == InitStale /\ [][NextStale]_vars


\* The Records the store may hold for the topic when the pass starts, all
\* created at time 0: one whose address and description were never filled, one
\* that full generation wrote earlier, and one that the basic fallback wrote.
LegacyRecord(topic) ==
    Record(Slug(topic), "beach", Location(<<>>, 0, 0), <<>>,
           AgentTextOf("content_agent", topic), AgentTextOf("guidelines_agent", topic),
           CreatedAtDatetime(0, FALSE))

GeneratedRecord(topic) ==
    Record(Slug(topic), "beach",
           Location(GoaHit.display_name, GoaHit.lat, GoaHit.lon),
           AgentTextOf("description_agent", topic), AgentTextOf("content_agent", topic),
           AgentTextOf("guidelines_agent", topic), CreatedAtDatetime(0, FALSE))

StoredRecords ==
    UNION { {LegacyRecord(tp), GeneratedRecord(tp), basic_content(tp, 0)} : tp \in PassTopics }

Init ==
    /\ now = 0
    /\ stale = StaleIdle
    /\ fv = FvIdle
    /\ store \in {NoRecord} \cup StoredRecords
    /\ pass = PassIdle
    /\ gl = GeoIdle
    /\ rc = RaceIdle
    /\ sr = SrIdle

Next == PassStep \/ FetchStep \/ Tick

Spec == Init /\ [][Next]_vars

\* One fetch_location call on a drawn address
InitGeo ==
    /\ now = 0
    /\ stale = StaleIdle
    /\ fv = FvIdle
    /\ store = NoRecord
    /\ pass = PassIdle
    /\ gl \in { GeoCall(address) : address \in FetchQueries }
    /\ rc = RaceIdle
    /\ sr = SrIdle

NextGeo == GeoStep

SpecGeo == InitGeo /\ [][NextGeo]_vars

\* Two passes on a stored Record, fresh or older than the threshold
InitRace ==
    /\ now \in {0, PassMaxNow}
    /\ stale = StaleIdle
    /\ fv = FvIdle
    /\ store \in StoredRecords
    /\ pass = PassIdle
    /\ gl = GeoIdle
    /\ rc = [RaceIdle EXCEPT !.orig = store]
    /\ sr = SrIdle

NextRace == RaceStep

SpecRace == InitRace /\ [][NextRace]_vars

\* One safe_run call on a drawn agent
SafeRunAgents ==
    { "smart_location_agent", "location_validator_agent", "description_agent",
      "content_agent", "guidelines_agent", "tags_agent" }

InitSafeRun ==
    /\ now = 0
    /\ stale = StaleIdle
    /\ fv = FvIdle
    /\ store = NoRecord
    /\ pass = PassIdle
    /\ gl = GeoIdle
    /\ rc = RaceIdle
    /\ sr \in { [SrIdle EXCEPT !.pc = "loop", !.agent_name = a] : a \in SafeRunAgents }

NextSafeRun == SafeRunAttempt

SpecSafeRun == InitSafeRun /\ [][NextSafeRun]_vars

\* Two runs in immediate succession on a topic that has no Record yet
InitTwice ==
    /\ now = 0
    /\ stale = StaleIdle
    /\ fv = FvIdle
    /\ store = NoRecord
    /\ pass = PassIdle
    /\ gl = GeoIdle
    /\ rc = RaceIdle
    /\ sr = SrIdle

NextTwice == PassStep \/ FetchStep \/ PassAgain

SpecTwice == InitTwice /\ [][NextTwice]_vars


----------------------------------------------------------------------------
(* Claims *)

\* C1 (fetch_and_validate_location, max_retries >= 1): a call makes at most
\* max_retries calls of fetch_location and then returns: every resolve call
\* consumes one of the max_retries attempts (the loop index stays below
\* max_retries while the loop runs) and no frame ends by raising.  When every
\* attempt's verdict is invalid with should_retry = true, the call makes exactly
\* max_retries resolve calls and returns the candidate the last of them produced.
C1_BoundedResolvesThenReturn ==
    fv.max_retries >= 1 =>
        /\ fv.resolves <= fv.max_retries
        /\ fv.pc # "raised"
        /\ fv.pc = "resolve" => fv.resolves = fv.attempt /\ fv.attempt < fv.max_retries
        /\ fv.pc = "validate" => fv.resolves = fv.attempt + 1 /\ fv.attempt < fv.max_retries
        /\ (fv.pc = "returned" /\ fv.allRetry) =>
               /\ fv.resolves = fv.max_retries
               /\ fv.validates = fv.max_retries
               /\ fv.ret = fv.produced

C1_Witness ==
    /\ fv.pc = "returned"
    /\ fv.allRetry
    /\ fv.max_retries = DefaultMaxRetries
    /\ fv.resolves = DefaultMaxRetries
    /\ Truthy(fv.ret.address)

\* C2: in a pass over an existing Record the store is written at most once, by
\* one update carrying every staged field and updatedAt, only after the
\* location check and the three field checks are done; before that write the
\* stored Record is the one read at lookup.
C2_SingleWriteAfterAllChecks ==
    pass.path = "existing" =>
        /\ pass.updates_issued <= 1
        /\ pass.updates_issued = 0 => store = pass.existing_doc
        /\ pass.updates_issued = 1 =>
              /\ pass.pc \in {"refresh", "returned"}
              /\ pass.validated # "none"
              /\ \A f \in TextFields : pass.checks[f].needs \in {"true", "false"}
              /\ pass.updated_fields.keys # {}
              /\ store \in {pass.existing_doc,
                            SetFields(pass.existing_doc, pass.updated_fields, now)}

C2_Witness ==
    /\ pass.path = "existing"
    /\ pass.pc = "returned"
    /\ pass.updates_issued = 1
    /\ {"location", "shortDescription"} \subseteq pass.updated_fields.keys
    /\ store = SetFields(pass.existing_doc, pass.updated_fields, now)
    /\ store.location # pass.existing_doc.location
    /\ store.shortDescription # pass.existing_doc.shortDescription

\* C3: with the credentials configured, whatever the external capabilities
\* answer, smart_content_generation returns a Record and does not raise, for a
\* stored topic and for a new one.
C3_ReturnsRecordNeverRaises ==
    pass.has_key =>
        /\ pass.pc # "raised"
        /\ pass.pc = "returned" => pass.ret.exists

\* C4: when no Record is found and full generation raises, the basic fallback
\* Record (postType blog, location unset, generic description and text) is
\* returned and the pass ends with a Record persisted for the slug.
C4_FallbackPersisted ==
    (pass.pc = "returned" /\ pass.path = "fallback") =>
        /\ pass.ret = basic_content(pass.user_topic, now)
        /\ pass.ret.postType = "blog"
        /\ pass.ret.location = Location(NoneStr, 0, 0)
        /\ store.exists
        /\ store.slug = Slug(pass.user_topic)

\* C5: in a pass whose stored location failed validation a new location is
\* staged only when the fetcher ended with a candidate the validator judged
\* valid; after any other ending the stored location is untouched.
C5_LocationStagedOnlyWhenValid ==
    (pass.path = "existing" /\ pass.needs_update) =>
        /\ "location" \in pass.updated_fields.keys => pass.fetch_exit = "valid"
        /\ pass.fetch_exit # "valid" => store.location = pass.existing_doc.location

\* A location is fully unset, or fully set with coordinates other than the
\* (0.0, 0.0) sentinel
FullyUnset(location) ==
    location.address = NoneStr /\ location.latitude = 0 /\ location.longitude = 0
FullySet(location) ==
    Truthy(location.address) /\ ~(location.latitude = 0 /\ location.longitude = 0)

\* C6: every location written to the store, by full generation or by a partial
\* update, is fully unset or fully set; a non-empty address with the (0.0, 0.0)
\* sentinel is never persisted.
C6_LocationAllOrNothing ==
    [][(store'.exists /\ (~store.exists \/ store'.location # store.location))
          => (FullyUnset(store'.location) \/ FullySet(store'.location))]_vars

AgeRule(created_at, clock) ==
    \/ created_at.form \in {"falsy", "badstr"}
    \/ clock - created_at.t > DaysThreshold * UnitsPerDay

\* The OR of the six rules
SixRules(field_content, user_topic, created_at, is_content_field, clock) ==
    \/ IsBlank(field_content)
    \/ AgeRule(created_at, clock)
    \/ contains_wrong_location(field_content, user_topic)
    \/ contains_generic_phrases(field_content)
    \/ missing_topic_name(field_content, user_topic)
    \/ (is_content_field /\ contains_outdated_years(field_content))

\* C8: needs_field_update returns true exactly when one of the six rules
\* holds, whatever the order of evaluation; an empty field gives true whatever
\* the age and a field with a generic phrase gives true.
C8_ExactlyTheSixRules ==
    stale.called =>
        /\ ~stale.res.raised
        /\ stale.res.value = SixRules(stale.field, stale.topic, stale.created_at,
                                      stale.is_content_field, now)
        /\ contains_generic_phrases(stale.field) => stale.res.value

\* C9: for a non-blank field and a clock-comparable created_at,
\* needs_field_update returns true whenever created_at is missing, unparsable
\* or more than 60 days before the clock, whole days or not.
C9_AgeRuleAnyFraction ==
    (/\ stale.called
     /\ ~IsBlank(stale.field)
     /\ ~stale.created_at.aware
     /\ AgeRule(stale.created_at, now))
        => stale.res = Returned(TRUE)

FieldAgent(f) ==
    CASE f = "shortDescription" -> "description_agent"
      [] f = "text" -> "content_agent"
      [] f = "guidelines" -> "guidelines_agent"

\* C10: in a pass over an existing Record each of shortDescription, text and
\* guidelines is staged exactly when its own staleness check was true and its
\* own regeneration returned non-blank text; a field whose check was false is
\* not regenerated, and a field whose regeneration came back empty keeps its
\* stored value.
C10_StagedIffFlaggedAndRegenerated ==
    pass.path = "existing" =>
        \A f \in TextFields :
            LET c == pass.checks[f]
                flagged == NeedsUpdateStored(pass.existing_doc[f], pass.user_topic,
                                             pass.existing_doc.createdAt, f = "text", now)
            IN /\ (f \in pass.updated_fields.keys) <=> (c.needs = "true" /\ c.regen = "text")
               /\ c.needs = "false" => c.regen = "none" /\ ~flagged.value
               /\ c.needs = "true" => flagged.value
               /\ f \in pass.updated_fields.keys =>
                      pass.updated_fields[f] = AgentTextOf(FieldAgent(f), pass.user_topic)
               /\ (pass.pc = "returned" /\ f \notin pass.updated_fields.keys) =>
                      store[f] = pass.existing_doc[f]
               /\ (pass.pc = "returned" /\ f \in pass.updated_fields.keys) =>
                      store[f] \in {pass.existing_doc[f], pass.updated_fields[f]}

C10_Witness ==
    /\ pass.path = "existing"
    /\ pass.pc = "returned"
    /\ pass.updates_issued = 1
    /\ pass.checks["shortDescription"] = [needs |-> "true", regen |-> "text"]
    /\ pass.checks["text"] = [needs |-> "true", regen |-> "empty"]
    /\ pass.checks["guidelines"] = [needs |-> "false", regen |-> "none"]
    /\ store.shortDescription = AgentTextOf("description_agent", pass.user_topic)
    /\ store.text = pass.existing_doc.text

\* C11: a pass over an existing Record that staged no field issues no store
\* write (updatedAt unchanged) and returns the Record exactly as read at lookup.
C11_NothingStagedNothingWritten ==
    (pass.path = "existing" /\ pass.pc = "returned" /\ pass.updated_fields.keys = {}) =>
        /\ pass.updates_issued = 0
        /\ store = pass.existing_doc
        /\ store.updatedAt = pass.existing_doc.updatedAt
        /\ pass.ret = pass.existing_doc

C11_Witness ==
    /\ pass.path = "existing"
    /\ pass.pc = "returned"
    /\ pass.updated_fields.keys = {}
    /\ pass.validated = "verdict"
    /\ pass.checks["text"] = [needs |-> "true", regen |-> "empty"]
    /\ pass.ret = pass.existing_doc
    /\ store = pass.existing_doc

\* C12: when smart_content_generation is run again right after the run that
\* created the Record, and the validator accepts the stored location and no
\* staleness rule holds for the three text fields, the second run stages
\* nothing and writes nothing.
C12_SecondRunStagesNothing ==
    (pass.run = 2 /\ pass.validated # "none" /\ ~pass.needs_update) =>
        /\ pass.updated_fields.keys = {}
        /\ pass.updates_issued = 0
        /\ store = pass.existing_doc
        /\ pass.pc # "raised"
        /\ \A f \in TextFields :
              /\ pass.checks[f].needs \in {"none", "false"}
              /\ pass.checks[f].regen = "none"
        /\ pass.pc = "returned" => pass.ret = pass.existing_doc

C12_Witness ==
    /\ pass.run = 2
    /\ pass.pc = "returned"
    /\ pass.validated = "verdict"
    /\ ~pass.needs_update
    /\ \A f \in TextFields : pass.checks[f].needs = "false"
    /\ store.exists
    /\ store.createdAt = CreatedAtDatetime(now, FALSE)
    /\ pass.ret = store

\* C13: when the validator gives no structured verdict for a stored location
\* with a non-empty address (it raised or came back empty on both tries, or
\* answered plain text), validate_existing_location_in_db returns
\* needs_update = false, and the pass neither runs the fetcher nor stages a
\* location.
C13_ValidatorFailureIsPermissive ==
    (/\ pass.path = "existing"
     /\ Truthy(pass.existing_doc.location.address)
     /\ pass.validator_kind \in {"empty", "text"}) =>
        /\ ~pass.needs_update
        /\ pass.pc \notin {"loc_decide", "loc_fetch"}
        /\ pass.fetch_runs = 0
        /\ fv.pc = "idle"
        /\ "location" \notin pass.updated_fields.keys
        /\ store.location = pass.existing_doc.location

C13_Witness ==
    /\ pass.path = "existing"
    /\ pass.pc = "returned"
    /\ Truthy(pass.existing_doc.location.address)
    /\ pass.validator_kind = "empty"
    /\ pass.updates_issued = 1
    /\ store.location = pass.existing_doc.location

\* C14: in fetch_and_validate_location a valid verdict, and an invalid verdict
\* with should_retry = false, end the call on the attempt that got it, whatever
\* attempts remain: that attempt's candidate is returned and no resolve or
\* validate call follows.
C14_TerminalVerdicts ==
    fv.last_verdict \in {"valid", "no_retry"} =>
        /\ fv.pc = "returned"
        /\ fv.ret = fv.produced
        /\ fv.ret = fv.location_data
        /\ fv.resolves = fv.attempt + 1
        /\ fv.validates <= fv.resolves
        /\ fv.exit = IF fv.last_verdict = "valid" THEN "valid" ELSE "rejected"

C14_Witness ==
    /\ fv.last_verdict = "no_retry"
    /\ fv.pc = "returned"
    /\ fv.max_retries = DefaultMaxRetries
    /\ fv.attempt = 1
    /\ fv.resolves = 2
    /\ Truthy(fv.ret.address)


\* C15: fetch_location sends its queries in the fixed order of the strategy
\* list, each distinct query at most once; it returns the first in-country
\* result of the earliest query that has one and sends no request after it;
\* with no in-country result it returns the first result of the earliest
\* non-empty response, and the error candidate when every response is empty.
HasIndian(response) ==
    ~response.raises /\ \E k \in 1..Len(response.data) : IsIndian(response.data[k])

NonEmpty(response) == ~response.raises /\ response.data # <<>>

Earliest(S) == CHOOSE j \in S : \A k \in S : j <= k

FirstIndian(response) ==
    response.data[Earliest({k \in 1..Len(response.data) : IsIndian(response.data[k])})]

FirstAt(xs, x) == Earliest({k \in 1..Len(xs) : xs[k] = x})

C15_FirstInCountryElseFirstElseError ==
    (gl.pc = "returned" /\ Truthy(gl.address)) =>
        LET n == Len(gl.answers)
            S == gl.strategies
            all == search_strategies(gl.address)
            hits == {j \in 1..n : HasIndian(gl.answers[j])}
            some == {j \in 1..n : NonEmpty(gl.answers[j])}
        IN /\ gl.asked = SubSeq(S, 1, n)
           /\ \A a, b \in 1..Len(S) : a # b => S[a] # S[b]
           /\ \A a \in 1..Len(all) : \E b \in 1..Len(S) : S[b] = all[a]
           /\ \A a, b \in 1..Len(S) : a < b => FirstAt(all, S[a]) < FirstAt(all, S[b])
           /\ IF hits # {}
              THEN /\ n = Earliest(hits)
                   /\ gl.ret = ResultCandidate(FirstIndian(gl.answers[n]))
              ELSE /\ n = Len(S)
                   /\ gl.ret = IF some # {}
                               THEN ResultCandidate(gl.answers[Earliest(some)].data[1])
                               ELSE ErrorCandidate(gl.address)

C15_Witness ==
    /\ gl.pc = "returned"
    /\ Len(gl.answers) = 2
    /\ gl.answers[1] = GeoData(<<ForeignHit>>)
    /\ gl.answers[2] = GeoData(<<ForeignHit, GoaHit>>)
    /\ gl.ret = ResultCandidate(GoaHit)

\* C16: between any two successive geocoding requests of the location
\* validation path there is a rate-limit pause; no two requests are sent
\* back to back.
C16_PauseBetweenRequests ==
    \A k \in 1..(Len(gl.events) - 1) :
        ~(gl.events[k] = "request" /\ gl.events[k + 1] = "request")

\* C17: with the generation service's credentials missing, the failure is
\* raised before the store is looked up for the topic and before any store
\* write, and it is fatal on the existing-record and on the new-record path:
\* no pass without credentials gets past the lookup, returns or persists.
C17_MissingKeyRaisedBeforeLookup ==
    ~pass.has_key => (pass.pc = "raised" /\ pass.path = "none")

\* C18: when a pass has staged fields and the partial update is not applied,
\* the Record returned to the caller still carries every staged field value,
\* although the stored Record does not.
C18_ReturnedCarriesStaged ==
    (/\ pass.pc = "returned" /\ pass.path = "existing"
     /\ pass.updates_issued = 1 /\ store = pass.existing_doc) =>
        \A f \in pass.updated_fields.keys : pass.ret[f] = pass.updated_fields[f]

\* C19: for an existing Record with an empty location address the validation
\* answers needs_update without calling the validator, and the pass then runs
\* fetch_and_validate_location exactly once, to completion, before its first
\* field staleness check or regeneration call.
C19_EmptyAddressOneFetchBeforeFields ==
    (/\ pass.path = "existing" /\ pass.has_key
     /\ ~Truthy(pass.existing_doc.location.address)
     /\ pass.pc \notin {"idle", "validate_existing"}) =>
        /\ pass.needs_update
        /\ pass.validated = "skipped"
        /\ pass.validator_kind = "none"
        /\ pass.fetch_runs <= 1
        /\ pass.pc \notin {"loc_decide", "loc_fetch", "raised"} =>
               (pass.fetch_runs = 1 /\ pass.fetch_exit # "none")
        /\ pass.pc \in {"loc_decide", "loc_fetch"} => pass.checks = NoChecks

\* C20: for an existing Record older than the freshness threshold whose stored
\* location the validator judges valid, the pass flags shortDescription, text
\* and guidelines stale, issues one regeneration call for each of them, never
\* runs fetch_and_validate_location and stages no location.
C20_OldRecordRegeneratesAllThree ==
    (/\ pass.path = "existing"
     /\ pass.pc \in {"write", "refresh", "returned", "raised"}
     /\ pass.existing_doc.createdAt.form = "datetime"
     /\ ~pass.existing_doc.createdAt.aware
     /\ now - pass.existing_doc.createdAt.t > DaysThreshold * UnitsPerDay
     /\ pass.validated = "verdict" /\ ~pass.needs_update) =>
        /\ \A f \in TextFields :
              pass.checks[f].needs = "true" /\ pass.checks[f].regen # "none"
        /\ pass.fetch_runs = 0
        /\ "location" \notin pass.updated_fields.keys

\* C21: in full generation, when the location decision is should_fetch=false
\* or the search query is empty (the typed fallback of safe_run included), no
\* fetch_and_validate_location run, geocoding request or validator call is
\* made, and the Record that is persisted has the unset location.
NoFetchDecided(p) ==
    /\ p.path \in {"new", "generated"}
    /\ p.should_fetch # "none"
    /\ (p.should_fetch = "false" \/ p.search_query = <<>>)

C21_NoFetchLeavesLocationUnset ==
    [][NoFetchDecided(pass') =>
          /\ pass'.fetch_runs = 0 /\ pass'.fetch_exit = "none" /\ fv' = FvIdle
          /\ pass'.location_data = UnsetLocation
          /\ store' # store => store'.location = Location(NoneStr, 0, 0)]_vars

C21_Witness ==
    /\ pass.pc = "returned" /\ pass.path = "generated"
    /\ pass.should_fetch = "false" /\ pass.search_query = <<>>
    /\ store.exists /\ store.slug = pass.output.slug
    /\ store.createdAt = pass.output.createdAt
    /\ store.location = Location(NoneStr, 0, 0)

\* C22: two passes on the same slug are not mutually excluded.  Whatever the
\* interleaving, after both have written, a field staged by both holds the
\* later writer's value only (the earlier update is lost), a field staged by
\* one pass only holds that pass's value, and the other fields are as stored.
C22_LaterWriterWins ==
    (/\ \A i \in Racers : rc.p[i].pc = "returned"
     /\ Len(rc.log) = 2 /\ rc.log[1].applied /\ rc.log[2].applied) =>
        LET first == rc.p[rc.log[1].who].updated_fields
            last == rc.p[rc.log[2].who].updated_fields
        IN \A f \in TextFields :
              store[f] = IF f \in last.keys THEN last[f]
                         ELSE IF f \in first.keys THEN first[f]
                         ELSE rc.orig[f]

\* Both passes read the same stored Record before either wrote, both staged
\* shortDescription with different texts, and one of them alone staged text
C22_Witness ==
    /\ \A i \in Racers : rc.p[i].pc = "returned" /\ rc.p[i].existing_doc = rc.orig
    /\ Len(rc.log) = 2 /\ rc.log[1].applied /\ rc.log[2].applied
    /\ LET first == rc.p[rc.log[1].who].updated_fields
           last == rc.p[rc.log[2].who].updated_fields
       IN /\ "shortDescription" \in first.keys \cap last.keys
          /\ first.shortDescription # last.shortDescription
          /\ store.shortDescription = last.shortDescription
          /\ "text" \in first.keys \ last.keys
          /\ store.text = first.text

\* C23: the query of resolve attempt k+1 after an invalid verdict that asks
\* for a retry on attempt k is modify_search_query_for_retry(topic,
\* content_type, k), which depends on those three values only: for k = 0 the
\* topic with ", Goa" appended unless it contains "goa"; for k = 1 the topic
\* with "Beach", "Restaurant" or "Festival" appended for beach, restaurant or
\* event and the topic itself otherwise; for k >= 2 the first word of the topic.
TypeWord(content_type) ==
    CASE content_type = "beach" -> <<"Beach">>
      [] content_type = "restaurant" -> <<"Restaurant">>
      [] content_type = "event" -> <<"Festival">>
      [] OTHER -> <<>>

FirstWord(topic) ==
    <<topic[Earliest({i \in 1..Len(topic) : ~IsSpace(topic[i])})]>>

RetryQuery(topic, content_type, k) ==
    CASE k = 0 -> IF \E i \in 1..Len(topic) : Lower(topic[i]) = "goa" THEN topic
                  ELSE topic \o <<",", "Goa">>
      [] k = 1 -> topic \o TypeWord(content_type)
      [] OTHER -> FirstWord(topic)

C23_RetryQueryByAttempt ==
    [][/\ \A tp \in FetchTopics, ct \in FetchTypes, k \in 0..MaxRetriesBound :
             modify_search_query_for_retry(tp, ct, k) = RetryQuery(tp, ct, k)
       /\ (fv.pc = "validate" /\ fv'.pc = "resolve" /\ fv'.last_verdict = "retry") =>
             /\ fv'.attempt = fv.attempt + 1
             /\ fv'.search_query = RetryQuery(fv.user_topic, fv.content_type, fv.attempt)]_vars

C23_Witness ==
    /\ fv.pc = "resolve" /\ fv.attempt = 2 /\ fv.last_verdict = "retry"
    /\ fv.content_type = "event"
    /\ fv.user_topic = <<"Goa", " ", "Carnival">>
    /\ fv.search_query = <<"Goa", " ", "Carnival", "Festival">>

\* C24: when fetch_location returns an error candidate on attempt k, then with
\* k < max_retries - 1 the next attempt resolves the same, unmodified query
\* after a backoff and the validator is not called for attempt k; with
\* k = max_retries - 1 the call returns that error candidate.
C24_ResolverErrorRetriesSameQuery ==
    [][(fv.pc = "resolve" /\ fv'.resolves = fv.resolves + 1
        /\ Truthy(fv'.location_data.error)) =>
          IF fv.attempt < fv.max_retries - 1
          THEN /\ fv'.pc = "resolve"
               /\ fv'.attempt = fv.attempt + 1
               /\ fv'.search_query = fv.search_query
               /\ fv'.validates = fv.validates
               /\ fv'.pauses = fv.pauses + 1
          ELSE /\ fv'.pc = "returned"
               /\ fv'.ret = fv'.location_data
               /\ fv'.pauses = fv.pauses]_vars

C24_Witness ==
    /\ fv.pc = "returned" /\ fv.exit = "unresolved"
    /\ fv.max_retries = DefaultMaxRetries
    /\ fv.resolves = DefaultMaxRetries /\ fv.validates = 0 /\ fv.pauses = 2
    /\ fv.ret = ErrorCandidate(fv.search_query)

\* C25: when the validation step fails on attempt k (no structured verdict),
\* then with attempts left the loop continues with the same candidate and the
\* same query, without reformulation and without resolving again; with no
\* attempt left the call returns the last candidate, unvalidated.
C25_ValidationFailureKeepsCandidate ==
    [][/\ (fv.pc = "validate" /\ fv'.validates = fv.validates + 1
           /\ fv'.last_verdict = "failed") =>
             IF fv.attempt < fv.max_retries - 1
             THEN /\ fv'.pc # "returned"
                  /\ fv'.attempt = fv.attempt + 1
                  /\ fv'.search_query = fv.search_query
                  /\ fv'.location_data = fv.location_data
             ELSE /\ fv'.pc = "returned"
                  /\ fv'.ret = fv.location_data
       /\ (fv.pc = "resolve" /\ fv.last_verdict = "failed"
           /\ fv.validates = fv.resolves) =>
             /\ fv'.resolves = fv.resolves
             /\ fv'.location_data = fv.location_data]_vars

\* C26: safe_run invokes the capability at most 2 times, returns the first
\* usable result (a dict or non-blank text) with no further invocation, never
\* raises, and after 2 failed or empty attempts returns the typed fallback:
\* {should_fetch: false, search_query: ""} for the smart-location capability
\* and the empty string for every other one.
Usable(result) == result.kind \notin {"raise", "empty"}

C26_SafeRunTwoAttemptsTypedFallback ==
    /\ sr.calls <= 2
    /\ sr.calls = Len(sr.seen)
    /\ sr.pc \in {"idle", "loop", "returned"}
    /\ sr.pc = "loop" => \A j \in 1..Len(sr.seen) : ~Usable(sr.seen[j])
    /\ sr.pc = "returned" =>
          LET usable == {j \in 1..Len(sr.seen) : Usable(sr.seen[j])}
          IN IF usable # {}
             THEN /\ sr.calls = Earliest(usable)
                  /\ sr.ret = sr.seen[sr.calls]
                  /\ IsDict(sr.ret) \/ ~IsBlank(sr.ret.text)
             ELSE /\ sr.calls = 2
                  /\ sr.ret = IF sr.agent_name = "smart_location_agent"
                              THEN AgentDict([should_fetch |-> "false", search_query |-> <<>>])
                              ELSE AgentText(<<>>)
          /\ sr.ret = safe_run(sr.agent_name,
                               [j \in 1..SafeRunRetries |->
                                   IF j <= Len(sr.seen) THEN sr.seen[j] ELSE AgentEmpty])

C26_Witness ==
    /\ sr.pc = "returned" /\ sr.agent_name = "smart_location_agent"
    /\ sr.seen = <<AgentRaise, AgentEmpty>>
    /\ sr.ret = SmartLocationFallback

\* C27: the partial update never writes createdAt and the age rule reads
\* createdAt only; so a pass over a Record older than the threshold flags
\* shortDescription, text and guidelines stale, however recently they were
\* regenerated, and when every regeneration returns non-blank text it does not
\* end with zero staged updates.
C27_OldRecordAlwaysRestaged ==
    /\ (pass.path = "existing" /\ pass.pc \in {"write", "refresh", "returned"}) =>
          store.createdAt = pass.existing_doc.createdAt
    /\ (/\ pass.path = "existing" /\ pass.pc = "returned"
        /\ pass.existing_doc.createdAt.form = "datetime"
        /\ ~pass.existing_doc.createdAt.aware
        /\ now - pass.existing_doc.createdAt.t > DaysThreshold * UnitsPerDay) =>
          /\ \A f \in TextFields : pass.checks[f].needs = "true"
          /\ (\A f \in TextFields : pass.checks[f].regen = "text") =>
                (TextFields \subseteq pass.updated_fields.keys /\ pass.updates_issued = 1)

\* C28: needs_field_update returns a boolean and never raises, for every
\* non-blank field text and every form of created_at a stored Record can
\* carry: missing, an unparsable string, an ISO string with or without a
\* timezone, a datetime.
C28_NeedsFieldUpdateNeverRaises ==
    (stale.called /\ ~IsBlank(stale.field)) =>
        (~stale.res.raised /\ stale.res.value \in BOOLEAN)

\* C29: fetch_and_validate_location returns a candidate for every
\* max_retries >= 0; with max_retries = 0 it makes no resolve call and still
\* returns a value instead of raising.
C29_ReturnsForEveryMaxRetries ==
    /\ fv.pc \in {"idle", "enter", "resolve", "validate", "returned"}
    /\ (fv.max_retries = 0 /\ fv.pc \notin {"idle", "enter"}) =>
          (fv.pc = "returned" /\ fv.resolves = 0)

\* C30: fetch_and_validate_location calls modify_search_query_for_retry only
\* with attempt < max_retries - 1; with the default max_retries = 3 the resolve
\* queries of a run are the initial query, the attempt-0 reformulation and the
\* attempt-1 reformulation, in that order, and the reformulation of an attempt
\* >= 2 is never made.
C30_ReformulationsBelowLastAttempt ==
    /\ \A k \in fv.reformulations : k < fv.max_retries - 1
    /\ (fv.max_retries = DefaultMaxRetries /\ fv.pc \in {"resolve", "validate", "returned"}) =>
          /\ fv.reformulations \subseteq {0, 1}
          /\ fv.search_query \in
                {fv.initial_query} \cup
                { modify_search_query_for_retry(fv.user_topic, fv.content_type, k) :
                     k \in fv.reformulations }
          /\ fv.reformulations = {} => fv.search_query = fv.initial_query

C30_Witness ==
    /\ fv.max_retries = DefaultMaxRetries
    /\ fv.pc = "returned" /\ fv.attempt = 2 /\ fv.resolves = 3
    /\ fv.reformulations = {0, 1}
    /\ fv.user_topic = <<"Colva", "Beach">> /\ fv.content_type = "restaurant"
    /\ fv.search_query = <<"Colva", "Beach", "Restaurant">>
    /\ fv.search_query # fv.initial_query

====
